---------------------------- MODULE Spec2Model ----------------------------
(***************************************************************************)
(* Model of hid_relay_modern_gui.py: the executable locator, the relay     *)
(* command client (HIDRelayController) and the session state machine of    *)
(* ModernHIDRelayGUI with its detection and status-polling threads.        *)
(*                                                                         *)
(* Text is modelled as a sequence of one-character strings, so that        *)
(* strip() and split() are computed the way Python computes them.          *)
(***************************************************************************)
EXTENDS Integers, Sequences, FiniteSets, TLC

(***************************************************************************)
(* Bounds of the model.                                                    *)
(***************************************************************************)
\* largest number of channels a STATUS line reports in the client model
MaxTok == 3
\* number of distinct directories in the locator model
MaxDirs == 3
\* largest number of channels a STATUS line reports to a detection thread
MaxChan == 1
\* largest number of channels a STATUS line reports to a polling thread
MaxPollChan == 2
\* polling threads that may be alive at once in the session model
MaxPollers == 2
\* detection threads that may be alive at once in the session model
MaxDetectors == 1

(***************************************************************************)
(* Program constants.                                                      *)
(***************************************************************************)
\* self.relay_count = 4  # Default to 4 channels
DefaultChannels == 4

(***************************************************************************)
(* Python values.                                                          *)
(***************************************************************************)
\* Optional[T]: None is the empty tuple, a value v is the 1-tuple <<v>>.
None == <<>>
Some(v) == <<v>>
\* truth value of an Optional[str] or Optional[list] ("if output:")
Truthy(opt) == opt # None /\ opt[1] # <<>>

\* the characters str.strip() removes
Whitespace == {" ", "\t", "\n", "\r"}

RECURSIVE lstrip(_)
lstrip(s) ==
    IF s # <<>> /\ Head(s) \in Whitespace THEN lstrip(Tail(s)) ELSE s

RECURSIVE rstrip(_)
rstrip(s) ==
    IF s # <<>> /\ s[Len(s)] \in Whitespace
    THEN rstrip(SubSeq(s, 1, Len(s) - 1))
    ELSE s

\* str.strip()
strip(s) == rstrip(lstrip(s))

\* str.split(sep) for a one-character sep: every occurrence of sep cuts, so
\* two adjacent separators give an empty piece and the result is never empty.
RECURSIVE split(_, _)
split(s, sep) ==
    IF \A i \in DOMAIN s : s[i] # sep
    THEN <<s>>
    ELSE LET i == CHOOSE j \in DOMAIN s :
                      s[j] = sep /\ \A h \in 1..(j - 1) : s[h] # sep
         IN  <<SubSeq(s, 1, i - 1)>> \o split(SubSeq(s, i + 1, Len(s)), sep)

\* seq[-1]
last(seq) == seq[Len(seq)]


(***************************************************************************)
(* The vendor executable as the client sees it: one invocation ends in an  *)
(* outcome, which is either an exception of subprocess.run or a completed  *)
(* process with its return code and standard output.                       *)
(***************************************************************************)
Digits == <<"1", "2", "3", "4", "5", "6", "7", "8", "9">>

\* the text "<index>=ON" or "<index>=OFF"
Token(i, on) ==
    <<Digits[i], "=">> \o (IF on THEN <<"O", "N">> ELSE <<"O", "F", "F">>)

\* the tokens of channels 1..m in order, channel i being on iff vec[i]
Tokens(vec) == [i \in DOMAIN vec |-> Token(i, vec[i])]

RECURSIVE join(_, _)
join(toks, sep) ==
    IF toks = <<>> THEN <<>>
    ELSE IF Len(toks) = 1 THEN toks[1]
    ELSE toks[1] \o sep \o join(Tail(toks), sep)

DeviceStatus ==
    <<"D", "e", "v", "i", "c", "e", " ", "s", "t", "a", "t", "u", "s", ":">>

\* "Device status:", alone or after a board identifier that holds a colon
Labels == {DeviceStatus, <<"I", "D", ":", "A", " ">> \o DeviceStatus}

\* what stands between two tokens of a status line
Separators == {<<" ">>, <<" ", " ">>, <<"\t">>}

\* what ends the line
Trailers == {<<>>, <<"\n">>}

StatusLine(label, vec, sep, trail) ==
    label \o <<" ">> \o join(Tokens(vec), sep) \o trail

Vectors(n) == UNION {[1..m -> BOOLEAN] : m \in 0..n}

\* the status lines of the client model
StatusLines ==
    {StatusLine(l, v, s, t) :
        l \in Labels, v \in Vectors(MaxTok), s \in Separators, t \in Trailers}

\* the status lines of the session model for up to n channels: one label,
\* no trailer, single or double blank between the tokens, at least one channel
SessionStatusLines(n) ==
    {StatusLine(DeviceStatus, v, s, <<>>) :
        v \in Vectors(n) \ {<<>>}, s \in {<<" ">>, <<" ", " ">>}}

\* the exceptions subprocess.run raises (OSError stands for every spawn
\* fault other than a missing executable)
Faults == {"FileNotFoundError", "TimeoutExpired", "OSError"}

Raised(kind) == [kind |-> kind, returncode |-> 0, stdout |-> <<>>]
Completed(code, out) == [kind |-> "completed", returncode |-> code, stdout |-> out]

Outcomes(outputs) ==
    {Raised(k) : k \in Faults}
        \cup {Completed(c, o) : c \in {0, 1}, o \in outputs}

(***************************************************************************)
(* HIDRelayController.  Each operation is a function of the outcome of the *)
(* one invocation it makes; its result is [raised, value], raised telling  *)
(* that an exception left the operation.                                   *)
(***************************************************************************)
Return(v) == [raised |-> FALSE, value |-> v]
Raise == [raised |-> TRUE, value |-> None]

\* run_command without its last handler ("except Exception"): a spawn fault
\* other than a missing executable or a timeout leaves the operation
run_command_two_handlers(o) ==
    IF o.kind = "completed"
    THEN IF o.returncode = 0 THEN Return(Some(strip(o.stdout)))
                             ELSE Return(None)
    ELSE IF o.kind = "FileNotFoundError" THEN Return(None)
    ELSE IF o.kind = "TimeoutExpired" THEN Return(None)
    ELSE Raise

\* the handlers of run_command, in order: FileNotFoundError,
\* subprocess.TimeoutExpired, Exception
run_command(o) ==
    IF o.kind = "completed"
    THEN IF o.returncode = 0 THEN Return(Some(strip(o.stdout)))
                             ELSE Return(None)
    ELSE IF o.kind = "FileNotFoundError" THEN Return(None)
    ELSE IF o.kind = "TimeoutExpired" THEN Return(None)
    ELSE Return(None)

enumerate_devices(o) == run_command(o)

get_device_state(o) ==
    LET r == run_command(o)
    IN  IF r.raised THEN Raise
        ELSE IF Truthy(r.value)
        THEN LET status_part == strip(last(split(r.value[1], ":")))
             IN  Return(Some(split(status_part, " ")))
        ELSE Return(None)

\* set_relay_state returning bool(result) in place of "result is not None":
\* a process that succeeds and prints nothing counts as a failure
set_relay_state_truthy(o) ==
    LET r == run_command(o)
    IN  IF r.raised THEN Raise ELSE Return(Truthy(r.value))

set_relay_state(o) ==
    LET r == run_command(o)
    IN  IF r.raised THEN Raise ELSE Return(r.value # None)

set_all_relays(o) ==
    LET r == run_command(o)
    IN  IF r.raised THEN Raise ELSE Return(r.value # None)

\* detect_relay_count falling back to the default of four channels, as the
\* detection thread does, in place of 0
detect_relay_count_default(o) ==
    LET r == get_device_state(o)
    IN  IF r.raised THEN Raise
        ELSE IF Truthy(r.value) THEN Return(Len(r.value[1]))
        ELSE Return(DefaultChannels)

detect_relay_count(o) ==
    LET r == get_device_state(o)
    IN  IF r.raised THEN Raise
        ELSE IF Truthy(r.value) THEN Return(Len(r.value[1])) ELSE Return(0)

\* the argument vector of each operation (self.device_id is never set, so
\* the id= argument is never passed)
Command(op, state, relay_number) ==
    CASE op = "enumerate_devices" -> <<"ENUM">>
      [] op = "get_device_state" -> <<"STATUS">>
      [] op = "detect_relay_count" -> <<"STATUS">>
      [] op = "set_relay_state" -> <<state, relay_number>>
      [] op = "set_all_relays" -> <<state, "ALL">>


(***************************************************************************)
(* Executable locator.  A path is [dir, name]; dir 0 is the bare name,     *)
(* which os.path.exists resolves against the working directory.            *)
(***************************************************************************)
Dirs == 1..MaxDirs
Systems == {"windows", "linux", "darwin"}
ExeNames == {"hidusb-relay-cmd.exe", "hidusb-relay-cmd"}

Path(d, name) == [dir |-> d, name |-> name]

\* os.path.exists(path) with the files of the disk and the working directory
exists(path, files, cwd) ==
    Path(IF path.dir = 0 THEN cwd ELSE path.dir, path.name) \in files

\* sys._MEIPASS when the program runs from a bundle (meipass # 0), else
\* os.path.abspath("."), the working directory
get_resource_path(relative_path, meipass, cwd) ==
    LET base_path == IF meipass # 0 THEN meipass ELSE cwd
    IN  Path(base_path, relative_path)

RECURSIVE first_existing(_, _, _, _)
first_existing(search_paths, files, cwd, default) ==
    IF search_paths = <<>> THEN default
    ELSE IF exists(Head(search_paths), files, cwd) THEN Head(search_paths)
    ELSE first_existing(Tail(search_paths), files, cwd, default)

get_relay_executable(system, meipass, script_dir, cwd, files) ==
    LET exe_name == IF system = "windows" THEN "hidusb-relay-cmd.exe"
                                          ELSE "hidusb-relay-cmd"
        bundled_path == get_resource_path(exe_name, meipass, cwd)
        search_paths == <<Path(script_dir, exe_name),
                          Path(cwd, exe_name),
                          Path(0, exe_name)>>
    IN  IF exists(bundled_path, files, cwd) THEN bundled_path
        ELSE first_existing(search_paths, files, cwd, Path(0, exe_name))

(***************************************************************************)
(* State.                                                                  *)
(***************************************************************************)
VARIABLES
    \* locator model: the environment and the result of one lookup
    loc_system,     \* platform.system().lower()
    loc_meipass,    \* directory of sys._MEIPASS, 0 when not bundled
    loc_script,     \* directory of the running script
    loc_cwd,        \* working directory
    loc_files,      \* the files on disk, as paths
    loc_result,     \* None, or the path get_relay_executable returned
    \* client model: the last operation called, its invocation and result
    cl_op,          \* name of the operation, "none" before the first call
    cl_cmd,         \* arguments passed to the executable
    cl_outcome,     \* outcome of the invocation
    cl_result,      \* [raised, value] of the operation
    \* session model: the fields of ModernHIDRelayGUI
    relay_count,            \* self.relay_count
    relay_states,           \* self.relay_states: channel number -> bool
    relay_cards,            \* keys of self.relay_cards (one toggle button each)
    is_connected,           \* self.is_connected
    status_update_running,  \* self.status_update_running
    detect_btn,             \* the Detect button is enabled
    connect_btn,            \* the Connect / Disconnect button is enabled
    all_on_btn,             \* the All ON button is enabled
    all_off_btn,            \* the All OFF button is enabled
    \* the threads
    ui,                     \* interface thread: the handler it is inside
    det_pc,                 \* detection threads: position of each
    det_count,              \* detection threads: what detect_relay_count returned
    poll_pc,                \* polling threads: position of each
    poll_stopped,           \* polling threads: disconnect ran since it started
    notice,                 \* message box raised by the latest step
    last_set,               \* set_relay_state(k, s) succeeded and the interface
                            \* thread has done nothing since: <<k, s>>
    poll_skipped,           \* the latest step was a status poll whose result
                            \* was absent
    closed                  \* the window was closed

loc_vars == <<loc_system, loc_meipass, loc_script, loc_cwd, loc_files, loc_result>>
cl_vars == <<cl_op, cl_cmd, cl_outcome, cl_result>>
gui_vars == <<relay_count, relay_states, relay_cards, is_connected,
              status_update_running, detect_btn, connect_btn, all_on_btn,
              all_off_btn, ui, det_pc, det_count, poll_pc,
              poll_stopped, notice, last_set, poll_skipped, closed>>

vars == <<loc_vars, cl_vars, gui_vars>>

(***************************************************************************)
(* Locator model: every environment, then one lookup.                      *)
(***************************************************************************)
AllFiles == {Path(d, n) : d \in Dirs, n \in ExeNames}

LocatorInit ==
    /\ loc_system \in Systems
    /\ loc_meipass \in {0} \cup Dirs
    /\ loc_script \in Dirs
    /\ loc_cwd \in Dirs
    /\ loc_files \in SUBSET AllFiles
    /\ loc_result = None

\* the locator is not exercised
LocatorParked ==
    /\ loc_system = "linux"
    /\ loc_meipass = 0
    /\ loc_script = 1
    /\ loc_cwd = 1
    /\ loc_files = {}
    /\ loc_result = None

\* HIDRelayController.__init__: self.relay_executable = self.get_relay_executable()
Locate ==
    /\ loc_result = None
    /\ loc_result' = Some(get_relay_executable(loc_system, loc_meipass,
                                               loc_script, loc_cwd, loc_files))
    /\ UNCHANGED <<loc_system, loc_meipass, loc_script, loc_cwd, loc_files>>
    /\ UNCHANGED <<cl_vars, gui_vars>>

(***************************************************************************)
(* Client model: any operation, called with any outcome of its invocation. *)
(* The controller writes none of its fields after construction, so one     *)
(* call from the initial state stands for every call.                      *)
(***************************************************************************)
ClientInit ==
    /\ cl_op = "none"
    /\ cl_cmd = <<>>
    /\ cl_outcome = Raised("FileNotFoundError")
    /\ cl_result = Return(None)

ClientOutcomes == Outcomes(StatusLines \cup {<<>>, <<" ", "\n">>})

CallEnumerateDevices ==
    /\ cl_op = "none"
    /\ \E o \in ClientOutcomes :
            /\ cl_op' = "enumerate_devices"
            /\ cl_cmd' = Command("enumerate_devices", "", "")
            /\ cl_outcome' = o
            /\ cl_result' = enumerate_devices(o)
    /\ UNCHANGED <<loc_vars, gui_vars>>

CallGetDeviceState ==
    /\ cl_op = "none"
    /\ \E o \in ClientOutcomes :
            /\ cl_op' = "get_device_state"
            /\ cl_cmd' = Command("get_device_state", "", "")
            /\ cl_outcome' = o
            /\ cl_result' = get_device_state(o)
    /\ UNCHANGED <<loc_vars, gui_vars>>

CallSetRelayState ==
    /\ cl_op = "none"
    /\ \E o \in ClientOutcomes, state \in {"ON", "OFF"}, k \in 1..MaxTok :
            /\ cl_op' = "set_relay_state"
            /\ cl_cmd' = Command("set_relay_state", state, Digits[k])
            /\ cl_outcome' = o
            /\ cl_result' = set_relay_state(o)
    /\ UNCHANGED <<loc_vars, gui_vars>>

CallSetAllRelays ==
    /\ cl_op = "none"
    /\ \E o \in ClientOutcomes, state \in {"ON", "OFF"} :
            /\ cl_op' = "set_all_relays"
            /\ cl_cmd' = Command("set_all_relays", state, "")
            /\ cl_outcome' = o
            /\ cl_result' = set_all_relays(o)
    /\ UNCHANGED <<loc_vars, gui_vars>>

CallDetectRelayCount ==
    /\ cl_op = "none"
    /\ \E o \in ClientOutcomes :
            /\ cl_op' = "detect_relay_count"
            /\ cl_cmd' = Command("detect_relay_count", "", "")
            /\ cl_outcome' = o
            /\ cl_result' = detect_relay_count(o)
    /\ UNCHANGED <<loc_vars, gui_vars>>

(***************************************************************************)
(* Session model: ModernHIDRelayGUI.  The interface thread runs one        *)
(* handler at a time and is blocked while a handler waits for the          *)
(* executable; the detection threads and the polling threads run beside    *)
(* it.  A handler that only writes fields is one step.  toggle_relay reads *)
(* relay_states before it calls the executable and writes after, so it is  *)
(* two steps with the other threads running in between; turn_all_on/off    *)
(* reads nothing before its call, so the call and the writes are one step. *)
(* A polling thread writes the whole status result in one step.            *)
(*                                                                         *)
(* det_count, poll_stopped, last_set, poll_skipped and notice record what  *)
(* happened; no action reads them.                                         *)
(***************************************************************************)
Pollers == 1..MaxPollers
Detectors == 1..MaxDetectors

\* the outcomes of the session model: every fault, a failed process, and a
\* process that succeeds with one of the outputs
SessionOutcomes(outputs) ==
    {Raised(k) : k \in Faults}
        \cup {Completed(1, <<>>)}
        \cup {Completed(0, o) : o \in outputs}

EnumOutcomes == SessionOutcomes({<<>>, <<"I", "D", "=", "A">>})
DetectOutcomes == SessionOutcomes(SessionStatusLines(MaxChan) \cup {<<>>})
PollOutcomes == SessionOutcomes(SessionStatusLines(MaxPollChan) \cup {<<>>})
SetOutcomes == SessionOutcomes({<<>>, <<"O", "K">>})

Idle == [pc |-> "idle", k |-> 0, cur |-> FALSE]
NoSet == <<0, "">>

\* ModernHIDRelayGUI.__init__
GuiInit ==
    /\ relay_count = 0
    /\ relay_states = <<>>
    /\ relay_cards = {}
    /\ is_connected = FALSE
    /\ status_update_running = FALSE
    /\ detect_btn = TRUE
    /\ connect_btn = FALSE
    /\ all_on_btn = FALSE
    /\ all_off_btn = FALSE
    /\ ui = Idle
    /\ det_pc = [d \in Detectors |-> "idle"]
    /\ det_count = [d \in Detectors |-> 0]
    /\ poll_pc = [p \in Pollers |-> "none"]
    /\ poll_stopped = [p \in Pollers |-> FALSE]
    /\ notice = "none"
    /\ last_set = NoSet
    /\ poll_skipped = FALSE
    /\ closed = FALSE

\* the interface thread is free to take the next event
UiReady == ~closed /\ ui.pc = "idle"

\* dict assignment d[k] = v for every k of keys
Assign(d, keys, v) ==
    [k \in DOMAIN d \cup keys |-> IF k \in keys THEN v ELSE d[k]]

\* state_str.split('=')[-1] == "ON"
is_on(state_str) == last(split(state_str, "=")) = <<"O", "N">>

\* a loop body without the test "i in self.relay_states"
apply_states_every_token(d, states) ==
    [i \in DOMAIN d \cup DOMAIN states |->
        IF i \in DOMAIN states THEN is_on(states[i]) ELSE d[i]]

\* the body of update_status_loop for one status result
apply_states(d, states) ==
    [i \in DOMAIN d |->
        IF i \in DOMAIN states /\ d[i] # is_on(states[i])
        THEN is_on(states[i])
        ELSE d[i]]

(* ------------------------- detection ---------------------------------- *)

\* detect_device: the button handler starts a detection thread (d is a free
\* thread of the MaxDetectors the model has)
DetectDevice(d) ==
    /\ UiReady
    /\ detect_btn
    /\ det_pc[d] = "idle"
    /\ detect_btn' = FALSE
    /\ det_pc' = [det_pc EXCEPT ![d] = "enum"]
    /\ notice' = "none"
    /\ last_set' = NoSet
    /\ UNCHANGED <<relay_count, relay_states, relay_cards, is_connected,
                   status_update_running, connect_btn, all_on_btn, all_off_btn,
                   ui, det_count, poll_pc, poll_stopped, closed>>
    /\ poll_skipped' = FALSE
    /\ UNCHANGED <<loc_vars, cl_vars>>

\* detection_thread: devices_info = self.controller.enumerate_devices()
DetectEnumerate(d) ==
    /\ ~closed
    /\ det_pc[d] = "enum"
    /\ \E o \in EnumOutcomes :
        LET devices_info == enumerate_devices(o).value
        IN  det_pc' = [det_pc EXCEPT ![d] = IF Truthy(devices_info)
                                            THEN "status"
                                            ELSE "post_failed"]
    /\ notice' = "none"
    /\ UNCHANGED <<relay_count, relay_states, relay_cards, is_connected,
                   status_update_running, detect_btn, connect_btn, all_on_btn,
                   all_off_btn, ui, det_count, poll_pc, poll_stopped,
                   last_set, closed>>
    /\ poll_skipped' = FALSE
    /\ UNCHANGED <<loc_vars, cl_vars>>

\* detection_thread: self.relay_count = self.controller.detect_relay_count()
DetectCount(d) ==
    /\ ~closed
    /\ det_pc[d] = "status"
    /\ \E o \in DetectOutcomes :
        LET count == detect_relay_count(o).value
        IN  /\ relay_count' = count
            /\ det_count' = [det_count EXCEPT ![d] = count]
            /\ det_pc' = [det_pc EXCEPT ![d] = IF count > 0
                                               THEN "post_detected"
                                               ELSE "default"]
    /\ notice' = "none"
    /\ UNCHANGED <<relay_states, relay_cards, is_connected,
                   status_update_running, detect_btn, connect_btn, all_on_btn,
                   all_off_btn, ui, poll_pc, poll_stopped, last_set, closed>>
    /\ poll_skipped' = FALSE
    /\ UNCHANGED <<loc_vars, cl_vars>>

\* detection_thread: self.relay_count = 4  # Default to 4 channels
DetectDefault(d) ==
    /\ ~closed
    /\ det_pc[d] = "default"
    /\ relay_count' = DefaultChannels
    /\ det_pc' = [det_pc EXCEPT ![d] = "post_detected"]
    /\ notice' = "none"
    /\ UNCHANGED <<relay_states, relay_cards, is_connected,
                   status_update_running, detect_btn, connect_btn, all_on_btn,
                   all_off_btn, ui, det_count, poll_pc, poll_stopped,
                   last_set, closed>>
    /\ poll_skipped' = FALSE
    /\ UNCHANGED <<loc_vars, cl_vars>>

\* on_device_detected, run by the interface thread (root.after)
OnDeviceDetected(d) ==
    /\ UiReady
    /\ det_pc[d] = "post_detected"
    /\ det_pc' = [det_pc EXCEPT ![d] = "idle"]
    /\ det_count' = [det_count EXCEPT ![d] = 0]
    /\ detect_btn' = TRUE
    /\ connect_btn' = TRUE
    /\ notice' = "none"
    /\ last_set' = NoSet
    /\ UNCHANGED <<relay_count, relay_states, relay_cards, is_connected,
                   status_update_running, all_on_btn, all_off_btn, ui,
                   poll_pc, poll_stopped, closed>>
    /\ poll_skipped' = FALSE
    /\ UNCHANGED <<loc_vars, cl_vars>>

\* on_detection_failed, run by the interface thread (root.after)
OnDetectionFailed(d) ==
    /\ UiReady
    /\ det_pc[d] = "post_failed"
    /\ det_pc' = [det_pc EXCEPT ![d] = "idle"]
    /\ detect_btn' = TRUE
    /\ connect_btn' = FALSE
    /\ notice' = "Detection Failed"
    /\ last_set' = NoSet
    /\ UNCHANGED <<relay_count, relay_states, relay_cards, is_connected,
                   status_update_running, all_on_btn, all_off_btn, ui,
                   det_count, poll_pc, poll_stopped, closed>>
    /\ poll_skipped' = FALSE
    /\ UNCHANGED <<loc_vars, cl_vars>>

(* ------------------------- connection --------------------------------- *)

\* toggle_connection -> connect, refused: "Please detect device first"
ConnectRefused ==
    /\ UiReady
    /\ connect_btn
    /\ ~is_connected
    /\ relay_count = 0
    /\ notice' = "Please detect device first"
    /\ last_set' = NoSet
    /\ UNCHANGED <<relay_count, relay_states, relay_cards, is_connected,
                   status_update_running, detect_btn, connect_btn, all_on_btn,
                   all_off_btn, ui, det_pc, det_count, poll_pc, poll_stopped, closed>>
    /\ poll_skipped' = FALSE
    /\ UNCHANGED <<loc_vars, cl_vars>>

\* toggle_connection -> connect: the relay states of 1..relay_count are set
\* to False, the flags and the buttons are set, one card per channel is
\* made, the polling thread is started (the first free thread of the
\* MaxPollers the model has; the threads of earlier sessions that have not
\* ended keep theirs)
Connect ==
    /\ UiReady
    /\ connect_btn
    /\ ~is_connected
    /\ relay_count # 0
    /\ \E p \in Pollers : poll_pc[p] = "none"
    /\ relay_states' = Assign(relay_states, 1..relay_count, FALSE)
    /\ is_connected' = TRUE
    /\ detect_btn' = FALSE
    /\ all_on_btn' = TRUE
    /\ all_off_btn' = TRUE
    /\ relay_cards' = relay_cards \cup 1..relay_count
    /\ status_update_running' = TRUE
    /\ LET p == CHOOSE q \in Pollers :
                   poll_pc[q] = "none" /\ \A h \in 1..(q - 1) : poll_pc[h] # "none"
       IN  /\ poll_pc' = [poll_pc EXCEPT ![p] = "while"]
           /\ poll_stopped' = [poll_stopped EXCEPT ![p] = FALSE]
    /\ last_set' = NoSet
    /\ notice' = "none"
    /\ UNCHANGED <<relay_count, connect_btn, ui, det_pc, det_count, closed>>
    /\ poll_skipped' = FALSE
    /\ UNCHANGED <<loc_vars, cl_vars>>

\* toggle_connection -> disconnect
Disconnect ==
    /\ UiReady
    /\ connect_btn
    /\ is_connected
    /\ status_update_running' = FALSE
    /\ is_connected' = FALSE
    /\ detect_btn' = TRUE
    /\ all_on_btn' = FALSE
    /\ all_off_btn' = FALSE
    /\ relay_cards' = {}
    /\ poll_stopped' = [p \in Pollers |-> poll_pc[p] # "none"]
    /\ ui' = Idle
    /\ last_set' = NoSet
    /\ notice' = "none"
    /\ UNCHANGED <<relay_count, relay_states, connect_btn, det_pc, det_count,
                   poll_pc, closed>>
    /\ poll_skipped' = FALSE
    /\ UNCHANGED <<loc_vars, cl_vars>>


(* ------------------------- relay control ------------------------------ *)

\* new_state = "OFF" if current_state else "ON"
new_state(current_state) == IF current_state THEN "OFF" ELSE "ON"

\* toggle_relay(relay_num), up to the call of set_relay_state: the handler
\* reads the current state and the interface thread waits for the executable
\* (in a session the caller is the button of card relay_num)
ToggleRelay(relay_num) ==
    /\ UiReady
    /\ IF ~is_connected
       THEN /\ notice' = "Not connected to device"
            /\ ui' = ui
       ELSE LET current_state == IF relay_num \in DOMAIN relay_states
                                 THEN relay_states[relay_num]
                                 ELSE FALSE
            IN  /\ ui' = [pc |-> "toggle", k |-> relay_num,
                           cur |-> current_state]
                /\ notice' = "none"
    /\ last_set' = NoSet
    /\ UNCHANGED <<relay_count, relay_states, relay_cards, is_connected,
                   status_update_running, detect_btn, connect_btn, all_on_btn,
                   all_off_btn, det_pc, det_count, poll_pc, poll_stopped, closed>>
    /\ poll_skipped' = FALSE
    /\ UNCHANGED <<loc_vars, cl_vars>>

\* a handler that records the new state whatever set_relay_state returned
toggle_relay_write_unchecked(d, relay_num, current_state, ok) ==
    Assign(d, {relay_num}, ~current_state)

\* toggle_relay: self.relay_states[relay_num] = not current_state, under
\* "if self.controller.set_relay_state(...)"
toggle_relay_write(d, relay_num, current_state, ok) ==
    IF ok THEN Assign(d, {relay_num}, ~current_state) ELSE d

\* toggle_relay, from the return of set_relay_state
ToggleRelayDone ==
    /\ ~closed
    /\ ui.pc = "toggle"
    /\ \E o \in SetOutcomes :
        LET ok == set_relay_state(o).value
        IN  /\ relay_states' = toggle_relay_write(relay_states, ui.k, ui.cur, ok)
            /\ IF ok
               THEN /\ last_set' = <<ui.k, new_state(ui.cur)>>
                    /\ notice' = "none"
               ELSE /\ notice' = "Failed to toggle relay"
                    /\ last_set' = NoSet
    /\ ui' = Idle
    /\ UNCHANGED <<relay_count, relay_cards, is_connected,
                   status_update_running, detect_btn, connect_btn, all_on_btn,
                   all_off_btn, det_pc, det_count, poll_pc, poll_stopped,
                   closed>>
    /\ poll_skipped' = FALSE
    /\ UNCHANGED <<loc_vars, cl_vars>>

\* turn_all_on / turn_all_off: set_all_relays(state) is called and, when it
\* succeeds, the relay states of 1..relay_count are set
TurnAll(state) ==
    /\ UiReady
    /\ IF state = "ON" THEN all_on_btn ELSE all_off_btn
    /\ \E o \in SetOutcomes :
        IF set_all_relays(o).value
        THEN relay_states' = Assign(relay_states, 1..relay_count, state = "ON")
        ELSE UNCHANGED relay_states
    /\ notice' = "none"
    /\ last_set' = NoSet
    /\ UNCHANGED <<relay_count, relay_cards, is_connected,
                   status_update_running, detect_btn, connect_btn, all_on_btn,
                   all_off_btn, ui, det_pc, det_count, poll_pc, poll_stopped,
                   closed>>
    /\ poll_skipped' = FALSE
    /\ UNCHANGED <<loc_vars, cl_vars>>

(* ------------------------- status polling ----------------------------- *)

\* update_status_loop: "while self.status_update_running" and
\* "if self.is_connected", reached at the start of the thread and after each
\* time.sleep(1.5): the thread ends, makes the STATUS invocation, or sleeps
PollLoop(p) ==
    /\ ~closed
    /\ poll_pc[p] = "while"
    /\ IF ~status_update_running
       THEN /\ poll_pc' = [poll_pc EXCEPT ![p] = "none"]
            /\ poll_stopped' = [poll_stopped EXCEPT ![p] = FALSE]
       ELSE /\ poll_pc' = [poll_pc EXCEPT ![p] = IF is_connected THEN "status"
                                                              ELSE "while"]
            /\ UNCHANGED poll_stopped
    /\ notice' = "none"
    /\ UNCHANGED <<relay_count, relay_states, relay_cards, is_connected,
                   status_update_running, detect_btn, connect_btn, all_on_btn,
                   all_off_btn, ui, det_pc, det_count, last_set, closed>>
    /\ poll_skipped' = FALSE
    /\ UNCHANGED <<loc_vars, cl_vars>>

\* a loop body that takes a missing status result for "every channel off"
update_status_reset(d, o) ==
    LET states == get_device_state(o)
    IN  IF ~states.raised /\ Truthy(states.value)
        THEN apply_states(d, states.value[1])
        ELSE [i \in DOMAIN d |-> FALSE]

\* what update_status_loop makes of relay_states when get_device_state
\* returns with outcome o
update_status(d, o) ==
    LET states == get_device_state(o)
    IN  IF ~states.raised /\ Truthy(states.value)
        THEN apply_states(d, states.value[1])
        ELSE d

\* update_status_loop: get_device_state returns, the result is written to
\* relay_states, the thread sleeps
PollStatus(p, o) ==
    /\ ~closed
    /\ poll_pc[p] = "status"
    /\ relay_states' = update_status(relay_states, o)
    /\ poll_pc' = [poll_pc EXCEPT ![p] = "while"]
    /\ notice' = "none"
    /\ UNCHANGED <<relay_count, relay_cards, is_connected,
                   status_update_running, detect_btn, connect_btn, all_on_btn,
                   all_off_btn, ui, det_pc, det_count, poll_stopped, last_set,
                   closed>>
    /\ poll_skipped' = ~Truthy(get_device_state(o).value)
    /\ UNCHANGED <<loc_vars, cl_vars>>

\* status lines whose token is not "<index>=ON" or "<index>=OFF"
OddStatusLines ==
    {DeviceStatus \o <<" ">> \o t :
        t \in {<<"1", "=", "o", "n">>, <<"O", "N">>,
               <<"1", "=", "O", "N", "=">>, <<"1", "=", "O", "N", "E">>}}

\* the relay_states a session can hold: keys 1..n
StateDicts == UNION {[1..n -> BOOLEAN] : n \in 0..DefaultChannels}

\* one pass of the body of update_status_loop, on its own: get_device_state
\* returns with outcome o and the result is written to relay_states
PollBody ==
    /\ cl_op = "none"
    /\ \E o \in ClientOutcomes \cup Outcomes(OddStatusLines) :
            /\ cl_op' = "update_status_loop"
            /\ cl_cmd' = Command("get_device_state", "", "")
            /\ cl_outcome' = o
            /\ cl_result' = get_device_state(o)
            /\ relay_states' = update_status(relay_states, o)
    /\ UNCHANGED <<relay_count, relay_cards, is_connected,
                   status_update_running, detect_btn, connect_btn, all_on_btn,
                   all_off_btn, ui, det_pc, det_count, poll_pc, poll_stopped,
                   notice, last_set, poll_skipped, closed>>
    /\ UNCHANGED loc_vars

(* ------------------------- closing ------------------------------------ *)

\* on_closing: the flag is cleared, a connected session is disconnected,
\* the window is destroyed and the process ends with its daemon threads
OnClosing ==
    /\ UiReady
    /\ closed' = TRUE
    /\ status_update_running' = FALSE
    /\ is_connected' = FALSE
    /\ IF is_connected
       THEN /\ detect_btn' = TRUE
            /\ all_on_btn' = FALSE
            /\ all_off_btn' = FALSE
            /\ relay_cards' = {}
       ELSE UNCHANGED <<detect_btn, all_on_btn, all_off_btn, relay_cards>>
    /\ poll_pc' = [p \in Pollers |-> "none"]
    /\ poll_stopped' = [p \in Pollers |-> FALSE]
    /\ det_pc' = [d \in Detectors |-> "idle"]
    /\ det_count' = [d \in Detectors |-> 0]
    /\ ui' = Idle
    /\ last_set' = NoSet
    /\ notice' = "none"
    /\ UNCHANGED <<relay_count, relay_states, connect_btn>>
    /\ poll_skipped' = FALSE
    /\ UNCHANGED <<loc_vars, cl_vars>>

(***************************************************************************)
(* Specifications.                                                         *)
(***************************************************************************)
ClientParked == ClientInit

GuiParked == GuiInit

\* the session: detection, connection, relay control and polling
Init == LocatorParked /\ ClientParked /\ GuiInit

Next ==
    \/ \E d \in Detectors : DetectDevice(d)
    \/ \E d \in Detectors : DetectEnumerate(d)
    \/ \E d \in Detectors : DetectCount(d)
    \/ \E d \in Detectors : DetectDefault(d)
    \/ \E d \in Detectors : OnDeviceDetected(d)
    \/ \E d \in Detectors : OnDetectionFailed(d)
    \/ ConnectRefused
    \/ Connect
    \/ Disconnect
    \/ \E k \in relay_cards : ToggleRelay(k)
    \/ ToggleRelayDone
    \/ \E state \in {"ON", "OFF"} : TurnAll(state)
    \/ \E p \in Pollers : PollLoop(p)
    \/ \E p \in Pollers, o \in PollOutcomes : PollStatus(p, o)
    \/ OnClosing

Spec == Init /\ [][Next]_vars

\* the client operations alone
InitClient == LocatorParked /\ ClientInit /\ GuiParked

NextClient ==
    \/ CallEnumerateDevices
    \/ CallGetDeviceState
    \/ CallSetRelayState
    \/ CallSetAllRelays
    \/ CallDetectRelayCount

SpecClient == InitClient /\ [][NextClient]_vars

\* the body of update_status_loop alone, over every relay_states the session
\* can hold (keys 1..n) and every status outcome
InitPollBody ==
    /\ LocatorParked
    /\ ClientInit
    /\ relay_states \in StateDicts
    /\ relay_count = 0
    /\ relay_cards = {}
    /\ is_connected = TRUE
    /\ status_update_running = TRUE
    /\ detect_btn = FALSE
    /\ connect_btn = TRUE
    /\ all_on_btn = TRUE
    /\ all_off_btn = TRUE
    /\ ui = Idle
    /\ det_pc = [d \in Detectors |-> "idle"]
    /\ det_count = [d \in Detectors |-> 0]
    /\ poll_pc = [p \in Pollers |-> "none"]
    /\ poll_stopped = [p \in Pollers |-> FALSE]
    /\ notice = "none"
    /\ last_set = NoSet
    /\ poll_skipped = FALSE
    /\ closed = FALSE

NextPollBody == PollBody

SpecPollBody == InitPollBody /\ [][NextPollBody]_vars

\* toggle_relay alone, called on a session object that is connected or not,
\* with any relay_states the session can hold
InitToggle ==
    /\ LocatorParked
    /\ ClientParked
    /\ relay_states \in StateDicts
    /\ is_connected \in BOOLEAN
    /\ relay_count = Cardinality(DOMAIN relay_states)
    /\ relay_cards = IF is_connected THEN DOMAIN relay_states ELSE {}
    /\ status_update_running = is_connected
    /\ detect_btn = ~is_connected
    /\ connect_btn = TRUE
    /\ all_on_btn = is_connected
    /\ all_off_btn = is_connected
    /\ ui = Idle
    /\ det_pc = [d \in Detectors |-> "idle"]
    /\ det_count = [d \in Detectors |-> 0]
    /\ poll_pc = [p \in Pollers |-> "none"]
    /\ poll_stopped = [p \in Pollers |-> FALSE]
    /\ notice = "none"
    /\ last_set = NoSet
    /\ poll_skipped = FALSE
    /\ closed = FALSE

NextToggle ==
    \/ \E relay_num \in 1..DefaultChannels : ToggleRelay(relay_num)
    \/ ToggleRelayDone

SpecToggle == InitToggle /\ [][NextToggle]_vars

\* the locator alone
InitLocator == LocatorInit /\ ClientParked /\ GuiParked

NextLocator == Locate

SpecLocator == InitLocator /\ [][NextLocator]_vars

(***************************************************************************)
(* Properties.                                                             *)
(***************************************************************************)
\* the invocation failed: an exception of subprocess.run, or a non-zero exit
IsFailure(o) == o.kind \in Faults \/ o.returncode # 0

\* the absence / false / zero result of each client operation
FailureValue(op) ==
    CASE op \in {"enumerate_devices", "get_device_state"} -> None
      [] op \in {"set_relay_state", "set_all_relays"} -> FALSE
      [] op = "detect_relay_count" -> 0

\* str.split() without an argument: the maximal runs of non-blank characters
RECURSIVE split_whitespace(_)
split_whitespace(s) ==
    LET t == lstrip(s)
    IN  IF t = <<>> THEN <<>>
        ELSE LET n == IF \A i \in DOMAIN t : t[i] \notin Whitespace
                      THEN Len(t)
                      ELSE (CHOOSE j \in DOMAIN t :
                               /\ t[j] \in Whitespace
                               /\ \A h \in 1..(j - 1) : t[h] \notin Whitespace) - 1
             IN  <<SubSeq(t, 1, n)>> \o split_whitespace(SubSeq(t, n + 1, Len(t)))

\* the tokens a status output holds after its last colon
ReportedTokens(out) == split_whitespace(last(split(out, ":")))

\* the status output reports channel k as s
Reports(out, k, s) ==
    \E i \in DOMAIN ReportedTokens(out) : ReportedTokens(out)[i] = Token(k, s = "ON")

\* C1: a detection run hands over to on_device_detected (Connect enabled)
\* only if the enumeration was non-empty and the detected channel count is
\* not zero; a zero count ends in on_detection_failed.
C1_DetectedOnlyWithChannels ==
    \A d \in Detectors : det_pc[d] = "post_detected" => det_count[d] > 0

\* C2: immediately after a connect that succeeds with channel count N,
\* relay_states has exactly the keys 1..N and every entry is false, also on a
\* reconnect after a session with a larger channel count.
C2_ConnectInitialisesExactlyN ==
    [][Connect =>
         /\ DOMAIN relay_states' = 1..relay_count
         /\ \A k \in DOMAIN relay_states' : ~relay_states'[k]]_vars

\* C3: whichever way the invocation fails (executable not found, timeout,
\* non-zero exit, other spawn fault), every client operation returns its
\* absence / false / zero result and no exception leaves it.
C3_UniformFailureCollapse ==
    (cl_op # "none" /\ IsFailure(cl_outcome)) =>
        /\ ~cl_result.raised
        /\ cl_result.value = FailureValue(cl_op)

\* C3 witness: get_device_state met a spawn fault that is neither a missing
\* executable nor a timeout, and returned None.
C3_Witness ==
    /\ cl_op = "get_device_state"
    /\ cl_outcome.kind = "OSError"
    /\ cl_result = Return(None)

\* the first existing candidate in the order bundled > script directory >
\* working directory, else the bare name
PriorityOrderPath ==
    LET exe_name == IF loc_system = "windows" THEN "hidusb-relay-cmd.exe"
                                              ELSE "hidusb-relay-cmd"
    IN  IF loc_meipass # 0 /\ Path(loc_meipass, exe_name) \in loc_files
        THEN Path(loc_meipass, exe_name)
        ELSE IF Path(loc_script, exe_name) \in loc_files
        THEN Path(loc_script, exe_name)
        ELSE IF Path(loc_cwd, exe_name) \in loc_files
        THEN Path(loc_cwd, exe_name)
        ELSE Path(0, exe_name)

\* C4: get_relay_executable returns the first existing candidate in the
\* order bundled > script directory > working directory, and the bare name
\* when none exists, whether or not the program runs from a bundle.
C4_LocatorPriority ==
    loc_result # None => loc_result[1] = PriorityOrderPath

\* C5: a successful STATUS invocation whose output holds k tokens after the
\* last colon, separated by one or more whitespace characters, returns
\* exactly those k tokens in order; a failed one returns None.
C5_StatusTokens ==
    cl_op = "get_device_state" =>
        /\ IsFailure(cl_outcome) => cl_result = Return(None)
        /\ (~IsFailure(cl_outcome) /\ ReportedTokens(cl_outcome.stdout) # <<>>) =>
               cl_result = Return(Some(ReportedTokens(cl_outcome.stdout)))

\* C6: in a connected session, when set_relay_state(k, s) has succeeded and a
\* successful status poll whose output reports k=s is applied next,
\* relay_states[k] equals (s = ON) afterwards.
C6_StateConvergence ==
    [][\A p \in Pollers, o \in PollOutcomes :
          (/\ PollStatus(p, o)
           /\ is_connected
           /\ last_set # NoSet
           /\ ~IsFailure(o)
           /\ Reports(o.stdout, last_set[1], last_set[2]))
          => relay_states'[last_set[1]] = (last_set[2] = "ON")]_vars

\* C7: a polling loop whose session was disconnected ends the next time it
\* tests its loop condition; it makes no further STATUS invocation, whatever
\* the caller does afterwards, an immediate reconnect included.
C7_DisconnectHaltsPolling ==
    [][\A p \in Pollers :
          (poll_stopped[p] /\ poll_pc[p] = "while" /\ poll_pc'[p] # "while")
          => poll_pc'[p] = "none"]_vars

\* C8: set_relay_state and set_all_relays return true exactly when the
\* process exits with status zero within the time bound, whatever it printed.
C8_ExitStatusOnly ==
    cl_op \in {"set_relay_state", "set_all_relays"} =>
        /\ ~cl_result.raised
        /\ cl_result.value =
               (cl_outcome.kind = "completed" /\ cl_outcome.returncode = 0)

\* C8 witness: set_relay_state returned true for a process that exited with
\* status zero and printed nothing.
C8_Witness ==
    /\ cl_op = "set_relay_state"
    /\ cl_outcome = Completed(0, <<>>)
    /\ cl_result = Return(TRUE)

\* C9: detect_relay_count returns the number of tokens get_device_state
\* returns, and 0 when get_device_state returns None, as it does for every
\* failed invocation.
C9_DetectCount ==
    cl_op = "detect_relay_count" =>
        LET states == get_device_state(cl_outcome).value
        IN  /\ ~cl_result.raised
            /\ IsFailure(cl_outcome) => states = None
            /\ states = None => cl_result.value = 0
            /\ states # None => cl_result.value = Len(states[1])

\* C9 witness: the executable was not found and detect_relay_count returned 0.
C9_Witness ==
    /\ cl_op = "detect_relay_count"
    /\ cl_outcome.kind = "FileNotFoundError"
    /\ cl_result = Return(0)

\* C10: at most one status-polling loop is alive at any time.
C10_SinglePollingLoop ==
    Cardinality({p \in Pollers : poll_pc[p] # "none"}) <= 1


\* C11: the channel count is fixed for a session: from a connect until the
\* matching disconnect no step changes relay_count, whatever a detection
\* thread does meanwhile, so that all-on / all-off of the session write
\* channels 1..N of the count the session was connected with.
C11_ChannelCountFixed ==
    [][(is_connected /\ is_connected') => relay_count' = relay_count]_vars

\* a step of a polling thread or of a detection thread
BackgroundStep ==
    \/ \E p \in Pollers, o \in PollOutcomes : PollStatus(p, o)
    \/ \E d \in Detectors : DetectCount(d) \/ DetectDefault(d)

\* C12: relay_states and relay_count have a single writer.  relay_states is
\* empty until the interface thread has written it (connect is the first
\* writer of every key), so once it is not empty the interface thread is a
\* writer, and from then on no step of a polling thread or of a detection
\* thread changes relay_states or relay_count.
C12_SingleWriter ==
    [][(relay_states # <<>> /\ BackgroundStep)
          => UNCHANGED <<relay_states, relay_count>>]_vars

\* C13: a failed polling cycle is skipped: the step of a polling thread whose
\* status result is absent leaves relay_states, relay_count, is_connected and
\* status_update_running as they were, raises no notice, and puts the thread
\* back at its loop condition (after the sleep).
C13_FailedPollSkipped ==
    [][\A p \in Pollers :
          (poll_skipped' /\ poll_pc[p] = "status" /\ poll_pc'[p] # "status")
              => /\ UNCHANGED <<relay_states, relay_count, is_connected,
                                status_update_running>>
                 /\ notice' = "none"
                 /\ poll_pc'[p] = "while"]_vars

\* a connected session with a channel on has just had a failed poll
C13_Witness ==
    /\ poll_skipped
    /\ is_connected
    /\ status_update_running
    /\ \E k \in DOMAIN relay_states : relay_states[k]
    /\ \E p \in Pollers : poll_pc[p] = "while"

\* the text of a token after its last "=" (the whole token without one)
AfterLastEquals(tok) ==
    LET eqs == {i \in DOMAIN tok : tok[i] = "="}
    IN  IF eqs = {} THEN tok
        ELSE SubSeq(tok, (CHOOSE i \in eqs : \A j \in eqs : j <= i) + 1, Len(tok))

\* C14: a status poll never changes the key set of relay_states: an entry
\* whose index has a token becomes true iff the text of that token after its
\* last "=" is exactly ON, an entry without a token is unchanged, and tokens
\* beyond the keys are ignored.
C14_PollKeepsKeys ==
    [][cl_op' = "update_status_loop"
          => LET states == cl_result'.value
             IN  /\ DOMAIN relay_states' = DOMAIN relay_states
                 /\ \A i \in DOMAIN relay_states :
                        IF states # None /\ i <= Len(states[1])
                        THEN relay_states'[i]
                                 = (AfterLastEquals(states[1][i]) = <<"O", "N">>)
                        ELSE relay_states'[i] = relay_states[i]]_vars

\* a status result with more tokens than relay_states has keys was applied
C14_Witness ==
    /\ cl_op = "update_status_loop"
    /\ cl_result.value # None
    /\ DOMAIN relay_states = 1..2
    /\ Len(cl_result.value[1]) = 3
    /\ relay_states = <<TRUE, FALSE>>

\* C15: toggle_relay changes state only on success.  Not connected: no
\* external command is issued (the handler is not left waiting for one) and
\* relay_states is unchanged.  Connected and the set command fails:
\* relay_states is unchanged.  It succeeds: the entry of the toggled channel
\* becomes the negation of the state the handler read, and every other entry
\* is unchanged.
C15_ToggleOnlyOnSuccess ==
    [][/\ notice' = "Not connected to device"
            => UNCHANGED relay_states /\ ui'.pc = "idle"
       /\ (ui.pc = "idle" /\ ui'.pc = "toggle")
            => is_connected /\ UNCHANGED relay_states
       /\ (ui.pc = "toggle" /\ ui'.pc = "idle" /\ last_set' = NoSet)
            => UNCHANGED relay_states
       /\ (ui.pc = "toggle" /\ ui'.pc = "idle" /\ last_set' # NoSet)
            => /\ last_set'[1] = ui.k
               /\ DOMAIN relay_states' = DOMAIN relay_states \cup {ui.k}
               /\ relay_states'[ui.k] = ~ui.cur
               /\ \A j \in DOMAIN relay_states \ {ui.k} :
                      relay_states'[j] = relay_states[j]]_vars

\* the set command of a toggle has just failed in a session with a channel on
C15_Witness ==
    /\ notice = "Failed to toggle relay"
    /\ is_connected
    /\ ui.pc = "idle"
    /\ \E k \in DOMAIN relay_states : relay_states[k]

\* C16: after disconnect and until the next connect no polling thread
\* modifies relay_states: a STATUS invocation that was in flight when
\* disconnect ran does not write its result.
C16_NoPollWriteAfterDisconnect ==
    [][(/\ ~is_connected
        /\ \E p \in Pollers : poll_pc[p] = "status" /\ poll_pc'[p] = "while")
          => relay_states' = relay_states]_vars

=============================================================================
